---- MODULE Spec2Model ----
(***************************************************************************)
(* The spectral anomaly pipeline of data_cube_ui                           *)
(* (apps/spectral_anomaly/tasks.py): a celery chain                        *)
(*   parse -> validate -> chunk -> start                                   *)
(* whose last task schedules a chord: one processing_task per              *)
(* (geographic chunk, time chunk) pair, then recombine_geographic_chunks   *)
(* on the list of their results, then create_output_products.              *)
(*                                                                         *)
(* Dates are the integers 1..MaxDates, the bounding box is the row of      *)
(* cells 1..MaxGeo, file names are strings built as the code builds them.  *)
(***************************************************************************)
EXTENDS Integers, Sequences, FiniteSets, TLC

\* Bounds of the model.
MaxGeo == 2
MaxDates == 3
MaxTasks == 4
MaxValue == 1

\* Python's None and a value that is not None: an optional value is a sequence
\* of length 0 or 1.
None == <<>>
Some(x) == <<x>>
the(o) == o[1]

Dates == 1..MaxDates
Cells == 1..MaxGeo

VARIABLES
    \* the imagery source and the task model's configuration (inputs)
    acq,                 \* acquisition dates the imagery source holds
    measurements_valid,  \* dc.validate_measurements(product, measurements)
    geo_size,            \* task.get_chunk_size()['geographic']
    time_size,           \* task.get_chunk_size()['time']
    reverse_time,        \* task.get_reverse_time()
    spectral_index,      \* task.query_type.result_id
    \* one pixel of the rasters, followed through the chunk processor and the
    \* output renderer
    px, px_pc, px_chunk, px_out,
    \* the settings module: os.environ, and a call of get_env_variable with
    \* its outcome
    environ, env_call, env_out,
    \* the task model
    status, message, complete,
    total_scenes, scenes_processed,
    acquisition_list, plot_path,
    \* the filesystem
    temp_exists,         \* os.path.exists(task.get_temp_path())
    temp_removed,        \* the pipeline has run shutil.rmtree on it
    files,               \* files of the temporary workspace
    outputs,             \* files written under task.get_result_path()
    \* celery: the chain of run()
    chain_pc, chain_arg,
    \* celery: the chord of start_chunk_processing
    header,              \* the signatures of the chord's header, by chunk ids
    task_state, result, loaded, written,
    body_pc, recombine_in, mosaic,
    \* open DataAccessApi connections
    dc_open

pixelv == <<px, px_pc, px_chunk, px_out>>
request == <<acq, measurements_valid, geo_size, time_size, reverse_time,
             spectral_index>>
settingsv == <<environ, env_call, env_out>>
inputs == <<request, pixelv, settingsv>>
model  == <<status, message, complete, total_scenes, scenes_processed,
            acquisition_list, plot_path>>
fs     == <<temp_exists, temp_removed, files, outputs>>
chainv == <<chain_pc, chain_arg>>
chord  == <<header, task_state, result, loaded, written, body_pc, recombine_in, mosaic>>
vars   == <<inputs, model, fs, chainv, chord, dc_open>>

----------------------------------------------------------------------------
\* Helpers

Min(S) == CHOOSE x \in S : \A y \in S : x <= y
Max(S) == CHOOSE x \in S : \A y \in S : y <= x

Range(s) == {s[i] : i \in DOMAIN s}

\* sorted(S, reverse=rev)
RECURSIVE sorted(_, _)
sorted(S, rev) ==
    IF S = {} THEN <<>>
    ELSE LET x == IF rev THEN Max(S) ELSE Min(S)
         IN  <<x>> \o sorted(S \ {x}, rev)

\* the entries before the first None
RECURSIVE until_none(_)
until_none(s) ==
    IF s = <<>> \/ Head(s) = None THEN <<>>
    ELSE <<Head(s)>> \o until_none(Tail(s))

\* [x for x in s if x is not None]
RECURSIVE not_none(_)
not_none(s) ==
    IF s = <<>> THEN <<>>
    ELSE (IF Head(s) = None THEN <<>> ELSE <<Head(s)>>) \o not_none(Tail(s))

\* contiguous runs of at most size elements, the last one possibly shorter
RECURSIVE runs(_, _)
runs(s, size) ==
    IF Len(s) = 0 THEN <<>>
    ELSE IF Len(s) <= size THEN <<s>>
    ELSE <<SubSeq(s, 1, size)>> \o runs(SubSeq(s, size + 1, Len(s)), size)

----------------------------------------------------------------------------
\* The spectral index registry

spectral_indices_function_map ==
    [ndvi |-> "NDVI", ndwi |-> "wofs_classify", ndbi |-> "NDBI", evi |-> "EVI",
     fractional_cover |-> "frac_coverage_classify"]

spectral_indices_range_map ==
    [ndvi |-> <<-1, 1>>, ndwi |-> <<0, 1>>, ndbi |-> <<-1, 1>>, evi |-> <<-1, 1>>,
     fractional_cover |-> <<-1, 1>>]

\* The names a task's query type may hold: the registered ones and one that
\* is not registered.
IndexNames == (DOMAIN spectral_indices_function_map) \cup {"savi"}

----------------------------------------------------------------------------
\* The request (parse_parameters_from_task)

time_range == <<1, MaxDates>>
baseline_time == <<1, 2>>
analysis_time == <<2, MaxDates>>

parameters_of_task ==
    [time |-> time_range, baseline_time |-> baseline_time,
     analysis_time |-> analysis_time]

\* dc.list_acquisition_dates(time=range)
list_acquisition_dates(range) ==
    sorted({d \in acq : range[1] <= d /\ d <= range[2]}, FALSE)

\* dc.get_dataset_by_extent(time=range): the acquisitions it loads
get_dataset_by_extent(range) ==
    {d \in acq : range[1] <= d /\ d <= range[2]}

----------------------------------------------------------------------------
\* The chunk planner (dc_chunker)

create_geographic_chunks(size) ==
    IF size = None THEN <<sorted(Cells, FALSE)>>
    ELSE runs(sorted(Cells, FALSE), the(size))

create_time_chunks(dates, rev, size) ==
    LET s == sorted(Range(dates), rev)
    IN  IF size = None THEN <<s>> ELSE runs(s, the(size))

----------------------------------------------------------------------------
\* The task model and the failure hook of the tasks' base class

update_status(st, msg) ==
    /\ status' = st
    /\ message' = msg

\* DCAlgorithmBase.on_failure: an exception that leaves a task marks the
\* task model as failed.
on_failure ==
    /\ complete' = TRUE
    /\ update_status("ERROR", "unhandled exception")

----------------------------------------------------------------------------
TypeOK ==
    /\ acq \subseteq Dates
    /\ measurements_valid \in BOOLEAN
    /\ geo_size \in {None} \cup {Some(n) : n \in 1..MaxGeo}
    /\ time_size \in {None} \cup {Some(n) : n \in 1..MaxDates}
    /\ reverse_time \in BOOLEAN
    /\ spectral_index \in IndexNames
    /\ status \in {"", "WAIT", "OK", "ERROR"}
    /\ complete \in BOOLEAN
    /\ temp_exists \in BOOLEAN
    /\ temp_removed \in BOOLEAN
    /\ chain_pc \in {"new", "parse", "validate", "chunk", "start", "end"}
    /\ body_pc \in {"idle", "waiting", "aborted", "recombine_failed", "render",
                  "render_failed", "done"}
    /\ dc_open \in Nat
    /\ px_pc \in {"none", "chunk", "mosaic", "image"}

\* The plans the model explores hold at most MaxTasks chunk tasks.
PlanSize(a, gs, ts) ==
    Len(create_geographic_chunks(gs))
        * Len(create_time_chunks(sorted(a, FALSE), FALSE, ts))

\* The state of a request before run().
NewTask ==
    /\ status = ""
    /\ message = ""
    /\ complete = FALSE
    /\ total_scenes = 0
    /\ scenes_processed = 0
    /\ acquisition_list = <<>>
    /\ plot_path = None
    /\ temp_removed = FALSE
    /\ files = {}
    /\ outputs = {}
    /\ chain_pc = "new"
    /\ chain_arg = None
    /\ header = <<>>
    /\ task_state = <<>>
    /\ result = <<>>
    /\ loaded = <<>>
    /\ written = <<>>
    /\ body_pc = "idle"
    /\ recombine_in = None
    /\ mosaic = None
    /\ dc_open = 0

\* No pixel is followed.
NoPixel ==
    /\ px = None
    /\ px_pc = "none"
    /\ px_chunk = None
    /\ px_out = None

\* The settings module is not looked at.
NoSettings ==
    /\ environ = <<>>
    /\ env_call = None
    /\ env_out = None

Init ==
    /\ acq \in SUBSET Dates
    /\ measurements_valid \in BOOLEAN
    /\ geo_size \in {None} \cup {Some(n) : n \in 1..MaxGeo}
    /\ time_size \in {None} \cup {Some(n) : n \in 1..MaxDates}
    /\ reverse_time \in BOOLEAN
    /\ spectral_index \in IndexNames
    /\ PlanSize(acq, geo_size, time_size) <= MaxTasks
    /\ temp_exists \in BOOLEAN
    /\ NewTask
    /\ NoPixel
    /\ NoSettings

----------------------------------------------------------------------------
\* The chain of run()

run ==
    /\ chain_pc = "new"
    /\ chain_pc' = "parse"
    /\ UNCHANGED <<inputs, model, fs, chain_arg, chord, dc_open>>

parse_parameters_from_task ==
    /\ chain_pc = "parse"
    /\ update_status("WAIT", "Parsed out parameters.")
    /\ chain_arg' = Some(parameters_of_task)
    /\ chain_pc' = "validate"
    /\ UNCHANGED <<inputs, complete, total_scenes, scenes_processed,
                   acquisition_list, plot_path, fs, chord, dc_open>>

NoBaseline == "There are no acquisitions for the baseline time period."
NoAnalysis == "There are no acquisitions for the analysis time period."
BadMeasurements == "The measurements aren't valid for the product."

\* The checks of lines 125-145, in their order: the message of the first one
\* that rejects the request, "" when none does.
validation_error_no_measurements(parameters) ==
    LET baseline_acquisitions == list_acquisition_dates(parameters.baseline_time)
        analysis_acquisitions == list_acquisition_dates(parameters.analysis_time)
    IN  IF Len(baseline_acquisitions) < 1 THEN NoBaseline
        ELSE IF Len(analysis_acquisitions) < 1 THEN NoAnalysis
        ELSE ""

validation_error_no_baseline(parameters) ==
    LET analysis_acquisitions == list_acquisition_dates(parameters.analysis_time)
    IN  IF Len(analysis_acquisitions) < 1 THEN NoAnalysis
        ELSE IF ~measurements_valid THEN BadMeasurements
        ELSE ""

validation_error(parameters) ==
    LET baseline_acquisitions == list_acquisition_dates(parameters.baseline_time)
        analysis_acquisitions == list_acquisition_dates(parameters.analysis_time)
    IN  IF Len(baseline_acquisitions) < 1 THEN NoBaseline
        ELSE IF Len(analysis_acquisitions) < 1 THEN NoAnalysis
        ELSE IF ~measurements_valid THEN BadMeasurements
        ELSE ""

validate_parameters ==
    /\ chain_pc = "validate"
    /\ LET parameters == the(chain_arg)
           error == validation_error(parameters)
       IN  IF error # ""
           THEN \* the connection is not closed on these returns
                /\ complete' = TRUE
                /\ update_status("ERROR", error)
                /\ chain_arg' = None
                /\ dc_open' = dc_open + 1
           ELSE /\ update_status("WAIT", "Validated parameters.")
                /\ chain_arg' = Some(parameters)
                /\ UNCHANGED <<complete, dc_open>>
    /\ chain_pc' = "chunk"
    /\ UNCHANGED <<inputs, total_scenes, scenes_processed, acquisition_list,
                   plot_path, fs, chord>>

perform_task_chunking ==
    /\ chain_pc = "chunk"
    /\ IF chain_arg = None
       THEN /\ chain_arg' = None
            /\ UNCHANGED <<status, message>>
       ELSE LET parameters == the(chain_arg)
                dates == list_acquisition_dates(parameters.time)
                geographic_chunks == create_geographic_chunks(geo_size)
                time_chunks == create_time_chunks(dates, reverse_time, time_size)
            IN  /\ update_status("WAIT", "Chunked parameter set.")
                /\ chain_arg' = Some([parameters |-> parameters,
                                      geographic_chunks |-> geographic_chunks,
                                      time_chunks |-> time_chunks])
    /\ chain_pc' = "start"
    /\ UNCHANGED <<inputs, complete, total_scenes, scenes_processed,
                   acquisition_list, plot_path, fs, chord, dc_open>>

\* The chunk ids of a plan, in the order of the group of groups: for each
\* geographic chunk, each time chunk (ids count from 0, as enumerate does).
chunk_ids(geographic_chunks, time_chunks) ==
    [i \in 1..(Len(geographic_chunks) * Len(time_chunks)) |->
        <<(i - 1) \div Len(time_chunks), (i - 1) % Len(time_chunks)>>]

start_chunk_processing ==
    /\ chain_pc = "start"
    /\ IF chain_arg = None
       THEN UNCHANGED <<model, chord>>
       ELSE LET chunk_details == the(chain_arg)
                parameters == chunk_details.parameters
                geographic_chunks == chunk_details.geographic_chunks
                time_chunks == chunk_details.time_chunks
                ids == Range(chunk_ids(geographic_chunks, time_chunks))
            IN  /\ total_scenes' =
                       Len(geographic_chunks) * Len(time_chunks)
                           * (IF time_size # None THEN the(time_size)
                              ELSE Len(time_chunks[1]))
                /\ scenes_processed' = 0
                /\ update_status("WAIT", "Starting processing.")
                /\ header' = [c \in ids |->
                                 [geo_chunk_id |-> c[1],
                                  time_chunk_id |-> c[2],
                                  geographic_chunk |-> geographic_chunks[c[1] + 1],
                                  time_chunk |-> time_chunks[c[2] + 1],
                                  parameters |-> parameters]]
                /\ task_state' = [c \in ids |-> "pending"]
                /\ result' = [c \in ids |-> None]
                /\ loaded' = [c \in ids |-> None]
                /\ written' = [c \in ids |-> {}]
                /\ body_pc' = "waiting"
                /\ UNCHANGED <<complete, acquisition_list, plot_path,
                               recombine_in, mosaic>>
    /\ chain_pc' = "end"
    /\ UNCHANGED <<inputs, fs, chain_arg, dc_open>>

----------------------------------------------------------------------------
\* The chunk processor

chunk_id_geo_only(geo_chunk_id, time_chunk_id) ==
    ToString(geo_chunk_id)

\* "_".join([str(geo_chunk_id), str(time_chunk_id)])
chunk_id(geo_chunk_id, time_chunk_id) ==
    ToString(geo_chunk_id) \o "_" \o ToString(time_chunk_id)

composite_path(id) == id \o ".nc"
composite_out_of_range_path(id) == id \o "_out_of_range.nc"
composite_no_data_path(id) == id \o "_no_data.nc"

\* dataset.to_netcdf(path): the file at path now holds the dataset
to_netcdf(fs_files, path, writer, data) ==
    {f \in fs_files : f.path # path}
        \cup {[path |-> path, writer |-> writer, data |-> data]}

\* processing_task, lines 256-308: the workspace check, then the imagery of
\* both roles is loaded and composited; loading may raise.
processing_task_begin(c) ==
    /\ body_pc \in {"waiting", "aborted"}
    /\ c \in DOMAIN task_state
    /\ task_state[c] = "pending"
    /\ IF ~temp_exists
       THEN /\ result' = [result EXCEPT ![c] = None]
            /\ task_state' = [task_state EXCEPT ![c] = "done"]
            /\ UNCHANGED <<loaded, dc_open, status, message, complete>>
       ELSE \E raises \in BOOLEAN :
            LET updated_params == header[c].parameters
            IN  \* dc.get_dataset_by_extent may raise; the lookup of line 289
                \* raises a KeyError for a name that is not registered
                IF raises \/ spectral_index \notin DOMAIN spectral_indices_function_map
                THEN /\ task_state' = [task_state EXCEPT ![c] = "failed"]
                     /\ on_failure
                     /\ dc_open' = dc_open + 1
                     /\ UNCHANGED <<result, loaded>>
                ELSE /\ loaded' = [loaded EXCEPT ![c] = Some(
                            [cells |-> Range(header[c].geographic_chunk),
                             baseline |-> get_dataset_by_extent(updated_params.baseline_time),
                             analysis |-> get_dataset_by_extent(updated_params.analysis_time)])]
                     /\ task_state' = [task_state EXCEPT ![c] = "running"]
                     /\ dc_open' = dc_open + 1
                     /\ UNCHANGED <<result, status, message, complete>>
    /\ UNCHANGED <<inputs, total_scenes, scenes_processed, acquisition_list,
                   plot_path, fs, chainv, header, written, body_pc,
                   recombine_in, mosaic>>

\* processing_task, lines 309-328: the three files of the chunk are written
\* and the task returns their paths, its metadata and its ids.
processing_task_end(c) ==
    /\ c \in DOMAIN task_state
    /\ task_state[c] = "running"
    /\ LET id == chunk_id(header[c].geo_chunk_id, header[c].time_chunk_id)
           l == the(loaded[c])
           \* one pixel per cell: the composites' difference and the masks
           \* are functions of the acquisitions that were loaded
           pixel == [baseline |-> l.baseline, analysis |-> l.analysis]
           data == [x \in l.cells |-> pixel]
           p1 == composite_path(id)
           p2 == composite_out_of_range_path(id)
           p3 == composite_no_data_path(id)
           metadata == l.baseline \cup l.analysis
       IN  /\ files' = to_netcdf(to_netcdf(to_netcdf(files, p1, c, data),
                                            p2, c, data), p3, c, data)
           /\ written' = [written EXCEPT ![c] = {p1, p2, p3}]
           /\ result' = [result EXCEPT ![c] = Some(
                  [paths |-> <<p1, p2, p3>>,
                   metadata |-> metadata,
                   ids |-> [geo_chunk_id |-> header[c].geo_chunk_id,
                            time_chunk_id |-> header[c].time_chunk_id]])]
    /\ task_state' = [task_state EXCEPT ![c] = "done"]
    /\ dc_open' = dc_open - 1
    /\ UNCHANGED <<inputs, model, temp_exists, temp_removed, outputs, chainv,
                   header, loaded, body_pc, recombine_in, mosaic>>

\* The chord of lines 217-227: a header task that raised puts the body in the
\* error state; the body then never runs.
chord_error ==
    /\ body_pc = "waiting"
    /\ \E c \in DOMAIN task_state : task_state[c] = "failed"
    /\ body_pc' = "aborted"
    /\ UNCHANGED <<inputs, model, fs, chainv, header, task_state, result,
                   loaded, written, recombine_in, mosaic, dc_open>>

----------------------------------------------------------------------------
\* The geographic recombiner

\* task.combine_metadata(old, new): the union of the per-date entries
combine_metadata(old, new) == old \cup new

\* a.combine_first(b): a's pixels, and b's where a has none
combine_first(a, b) ==
    [x \in (DOMAIN a) \cup (DOMAIN b) |-> IF x \in DOMAIN a THEN a[x] ELSE b[x]]

\* The datasets of a list are stitched onto the first of them, one after the
\* other.
RECURSIVE combine_from(_, _)
combine_from(combined_data, chunks) ==
    IF chunks = <<>> THEN combined_data
    ELSE combine_from(combine_first(combined_data, Head(chunks)), Tail(chunks))

\* What dc_chunker.combine_geographic_chunks gives for an empty list is not
\* settled by tasks.py: an empty (degenerate) dataset, or no dataset at all
\* (None, on which the to_netcdf of line 370 raises).
EmptyMosaics == {None, Some(<<>>)}

\* dc_chunker.combine_geographic_chunks(chunks), where empty is what it gives
\* for an empty list
combine_geographic_chunks(chunks, empty) ==
    IF chunks = <<>> THEN empty
    ELSE Some(combine_from(Head(chunks), Tail(chunks)))

\* xr.open_dataset(path)
open_dataset(path) == (CHOOSE f \in files : f.path = path).data

\* the writer of the files that are not a chunk task's
recombiner == <<-1, -1>>

full_composite_path == "full_composite.nc"
full_composite_out_of_range_path == "full_composite_out_of_range.nc"
full_composite_no_data_path == "full_composite_no_data.nc"

\* total_chunks of lines 345-346; the chord hands its body a list, one entry
\* per header task, in the order of the header
total_chunks_of(chunks) ==
    LET kept == not_none(chunks)
    IN  [i \in DOMAIN kept |-> the(kept[i])]

RECURSIVE metadata_of(_)
metadata_of(total_chunks) ==
    IF total_chunks = <<>> THEN {}
    ELSE combine_metadata(metadata_of(SubSeq(total_chunks, 1, Len(total_chunks) - 1)),
                          total_chunks[Len(total_chunks)].metadata)

\* The body of the chord runs once every header task has returned.
chord_ready_first ==
    \E c \in DOMAIN task_state : task_state[c] = "done"

chord_ready ==
    \A c \in DOMAIN task_state : task_state[c] = "done"

\* Lines 345-363: the merged metadata and the three combined datasets of a
\* list of chunk results.
combined(chunks, empty) ==
    LET total_chunks == total_chunks_of(chunks)
        composite_chunk_data ==
            [i \in DOMAIN total_chunks |-> open_dataset(total_chunks[i].paths[1])]
        out_of_range_chunk_data ==
            [i \in DOMAIN total_chunks |-> open_dataset(total_chunks[i].paths[2])]
        no_data_chunk_data ==
            [i \in DOMAIN total_chunks |-> open_dataset(total_chunks[i].paths[3])]
    IN  [metadata |-> metadata_of(total_chunks),
         composite |-> combine_geographic_chunks(composite_chunk_data, empty),
         out_of_range |-> combine_geographic_chunks(out_of_range_chunk_data, empty),
         no_data |-> combine_geographic_chunks(no_data_chunk_data, empty)]

recombine_geographic_chunks ==
    /\ body_pc = "waiting"
    /\ chord_ready
    /\ \E empty \in EmptyMosaics :
       LET ids == chunk_ids(the(chain_arg).geographic_chunks, the(chain_arg).time_chunks)
           chunks == [i \in DOMAIN ids |-> result[ids[i]]]
           metadata == combined(chunks, empty).metadata
           combined_composite_data == combined(chunks, empty).composite
           combined_out_of_range_data == combined(chunks, empty).out_of_range
           combined_no_data == combined(chunks, empty).no_data
       IN  /\ recombine_in' = Some(chunks)
           /\ IF combined_composite_data = None
              THEN \* None has no to_netcdf: the task raises
                   /\ on_failure
                   /\ body_pc' = "recombine_failed"
                   /\ UNCHANGED <<files, mosaic>>
              ELSE /\ files' =
                        to_netcdf(
                          to_netcdf(
                            to_netcdf(files, full_composite_path, recombiner,
                                      the(combined_composite_data)),
                            full_composite_out_of_range_path, recombiner,
                            the(combined_out_of_range_data)),
                          full_composite_no_data_path, recombiner,
                          the(combined_no_data))
                   /\ mosaic' = Some([paths |-> <<full_composite_path,
                                                   full_composite_out_of_range_path,
                                                   full_composite_no_data_path>>,
                                      metadata |-> metadata])
                   /\ body_pc' = "render"
                   /\ UNCHANGED <<status, message, complete>>
    /\ UNCHANGED <<inputs, total_scenes, scenes_processed, acquisition_list,
                   plot_path, temp_exists, temp_removed, outputs, chainv,
                   header, task_state, result, loaded, written, dc_open>>

----------------------------------------------------------------------------
\* The output renderer

data_path == "data_tif.tif"
result_path == "png_mosaic.png"
plot_file == "plot_path.png"

\* create_output_products(data), where the run raises at the step fail, or at
\* none: "open" (lines 394-411), "tif" (416-420), "png" (423-493),
\* "plot" (496-504).
reaches_rmtree_always(fail) == TRUE

\* line 510 is the last statement: only a run that raised nowhere reaches it
reaches_rmtree(fail) == fail = "none"

plots_any(dates) == Len(dates) >= 1

\* line 497: if len(dates) > 1
plots_trend(dates) == Len(dates) > 1

completes_after_tif(fail) == fail \in {"none", "png"}

\* lines 506-509 follow the writes of the raster (420) and of the image (493)
completes(fail) == fail = "none"

create_output_products(fail) ==
    /\ body_pc = "render"
    /\ LET data == the(mosaic)
           full_metadata == data.metadata
           dates == sorted(full_metadata, FALSE)
           plots == plots_trend(dates)
       IN  /\ fail = "plot" => plots
           /\ acquisition_list' = IF fail = "open" THEN acquisition_list ELSE dates
           /\ outputs' = outputs
                  \cup (IF fail \in {"open", "tif"} THEN {} ELSE {data_path})
                  \cup (IF fail \in {"open", "tif", "png"} THEN {} ELSE {result_path})
                  \cup (IF fail = "none" /\ plots THEN {plot_file} ELSE {})
           /\ plot_path' = IF fail \in {"plot", "none"} /\ plots
                           THEN Some(plot_file) ELSE plot_path
    /\ IF reaches_rmtree(fail)
       THEN \* shutil.rmtree(task.get_temp_path())
            /\ temp_exists' = FALSE
            /\ temp_removed' = TRUE
            /\ files' = {}
       ELSE UNCHANGED <<temp_exists, temp_removed, files>>
    /\ IF completes(fail)
       THEN /\ complete' = TRUE
            /\ update_status("OK", "All products have been generated.")
            /\ body_pc' = "done"
       ELSE /\ on_failure
            /\ body_pc' = "render_failed"
    /\ UNCHANGED <<inputs, total_scenes, scenes_processed, chainv, header,
                   task_state, result, loaded, written, recombine_in, mosaic,
                   dc_open>>

----------------------------------------------------------------------------
\* The environment: the workspace of a request that did not exist yet appears.
create_workspace ==
    /\ ~temp_exists
    /\ ~temp_removed
    /\ temp_exists' = TRUE
    /\ UNCHANGED <<inputs, model, temp_removed, files, outputs, chainv, chord,
                   dc_open>>

----------------------------------------------------------------------------
ChunkIds == (0..(MaxGeo - 1)) \X (0..(MaxDates - 1))
FailPoints == {"none", "open", "tif", "png", "plot"}

Next ==
    \/ run
    \/ parse_parameters_from_task
    \/ validate_parameters
    \/ perform_task_chunking
    \/ start_chunk_processing
    \/ \E c \in ChunkIds : processing_task_begin(c)
    \/ \E c \in ChunkIds : processing_task_end(c)
    \/ chord_error
    \/ recombine_geographic_chunks
    \/ \E fail \in FailPoints : create_output_products(fail)
    \/ create_workspace

Spec == Init /\ [][Next]_vars

----------------------------------------------------------------------------
\* Properties

\* The request passes the three checks of validate_parameters.
ValidRequest ==
    /\ \E d \in acq : baseline_time[1] <= d /\ d <= baseline_time[2]
    /\ \E d \in acq : analysis_time[1] <= d /\ d <= analysis_time[2]
    /\ measurements_valid

\* validate_parameters has run and the request is one it rejects.
Rejected == chain_pc \in {"chunk", "start", "end"} /\ ~ValidRequest

\* recombine_geographic_chunks has started.
Recombined == recombine_in # None

BodyStarted == body_pc \in {"recombine_failed", "render", "render_failed", "done"}

\* The non-null entries of the list handed to recombine_geographic_chunks.
NonNull == {the(r) : r \in Range(the(recombine_in)) \ {None}}

FullPaths == {full_composite_path, full_composite_out_of_range_path,
              full_composite_no_data_path}

\* C1: recombine_geographic_chunks starts only after every processing_task
\* of the plan, one per (geo chunk, time chunk) pair, has returned a result or
\* None; the list it gets holds the result of every one of them.
C1_FanInWaitsForAll ==
    (Recombined \/ BodyStarted) =>
        LET d == the(chain_arg)
            ids == chunk_ids(d.geographic_chunks, d.time_chunks)
        IN  /\ Recombined
            /\ DOMAIN task_state =
                   (0..(Len(d.geographic_chunks) - 1)) \X (0..(Len(d.time_chunks) - 1))
            /\ \A c \in DOMAIN task_state : task_state[c] = "done"
            /\ Len(the(recombine_in)) = Len(d.geographic_chunks) * Len(d.time_chunks)
            /\ \A i \in DOMAIN ids : the(recombine_in)[i] = result[ids[i]]

C1_Witness ==
    /\ Recombined
    /\ Cardinality(DOMAIN task_state) >= 2
    /\ \E c \in DOMAIN task_state : result[c] = None
    /\ \E c \in DOMAIN task_state : result[c] # None

\* C2: a processing_task that raises does not keep the pipeline from
\* recombining: the body of the chord is never put in the error state.
C2_FailureIsolated ==
    (\E c \in DOMAIN task_state : task_state[c] = "failed") => body_pc # "aborted"

\* C3: once validate_parameters has rejected the request, the chain passes
\* None on, no chunk task, recombination or rendering is scheduled and no
\* file is written.
C3_RejectedSchedulesNothing ==
    Rejected =>
        /\ chain_arg = None
        /\ DOMAIN task_state = {}
        /\ body_pc = "idle"
        /\ ~Recombined
        /\ mosaic = None
        /\ files = {}
        /\ outputs = {}
        /\ total_scenes = 0

C3_Witness == chain_pc = "end" /\ ~ValidRequest /\ ~measurements_valid

\* C4: after a validation failure and after a failure of
\* create_output_products the status is ERROR with a message, and no step
\* changes a status of ERROR.
C4_ErrorState ==
    /\ Rejected =>
           /\ status = "ERROR"
           /\ message \in {NoBaseline, NoAnalysis, BadMeasurements}
           /\ complete
    /\ body_pc = "render_failed" =>
           /\ status = "ERROR"
           /\ message # ""
           /\ complete

C4_ErrorIsFinal ==
    [][C4_ErrorState' /\ (status = "ERROR" => status' = "ERROR")]_vars

C4_Witness ==
    /\ body_pc = "render_failed"
    /\ status = "ERROR"
    /\ data_path \in outputs

\* C5: a processing_task that found no workspace returned None, loaded
\* nothing and wrote nothing; when at least one entry of the list is not
\* None, recombine_geographic_chunks builds the mosaic from exactly the
\* entries that are not None and the pipeline goes on to the render stage.
C5_SkippedChunksAreDropped ==
    /\ \A c \in DOMAIN task_state :
           (task_state[c] = "done" /\ result[c] = None) =>
               /\ loaded[c] = None
               /\ written[c] = {}
               /\ \A f \in files : f.writer # c
    /\ (Recombined /\ NonNull # {}) =>
           /\ body_pc \in {"render", "render_failed", "done"}
           /\ mosaic # None
           /\ the(mosaic).metadata = UNION {r.metadata : r \in NonNull}
           /\ body_pc = "render" =>
                  DOMAIN open_dataset(full_composite_path) =
                      UNION {Range(header[<<r.ids.geo_chunk_id, r.ids.time_chunk_id>>]
                                       .geographic_chunk) : r \in NonNull}

C5_Witness ==
    /\ Recombined
    /\ None \in Range(the(recombine_in))
    /\ NonNull # {}
    /\ body_pc = "done"

\* C7: the pipeline has removed the workspace only if create_output_products
\* wrote every artifact and set the status OK; until then every file a chunk
\* task wrote is still there.
C7_CleanupOnlyAfterSuccess ==
    /\ temp_removed =>
           /\ status = "OK"
           /\ complete
           /\ body_pc = "done"
           /\ {data_path, result_path} \subseteq outputs
           /\ Len(acquisition_list) > 1 => plot_file \in outputs
    /\ ~temp_removed =>
           \A c \in DOMAIN written : \A q \in written[c] : \E f \in files : f.path = q

C7_Witness ==
    /\ temp_removed
    /\ ~temp_exists
    /\ plot_file \in outputs

\* C8: two chunk tasks with different (geo_chunk_id, time_chunk_id) write
\* disjoint sets of files, none of them a file of the recombiner, and every
\* chunk file holds what its own task wrote.
C8_ChunkFilesDisjoint ==
    /\ \A c1, c2 \in DOMAIN written :
           c1 # c2 => written[c1] \cap written[c2] = {}
    /\ \A c \in DOMAIN written : written[c] \cap FullPaths = {}
    /\ ~temp_removed =>
           \A c \in DOMAIN written : \A q \in written[c] :
               \E f \in files : f.path = q /\ f.writer = c

C8_Witness ==
    \E c1, c2 \in DOMAIN written :
        /\ c1[1] = c2[1]
        /\ c1[2] # c2[2]
        /\ written[c1] # {}
        /\ written[c2] # {}
        /\ \A q \in written[c1] \cup written[c2] : \E f \in files : f.path = q

\* C9: for each role, a processing_task loads only acquisitions of the time
\* chunk it was given.
C9_LoadsOnlyItsTimeChunk ==
    \A c \in DOMAIN loaded :
        loaded[c] # None =>
            /\ the(loaded[c]).baseline \subseteq Range(header[c].time_chunk)
            /\ the(loaded[c]).analysis \subseteq Range(header[c].time_chunk)

\* C10: when two of the results handed to recombine_geographic_chunks cover
\* the same geographic chunk, the recombiner raises.
C10_OverlapIsFlagged ==
    (Recombined /\ \E r1, r2 \in NonNull :
                       /\ r1 # r2
                       /\ r1.ids.geo_chunk_id = r2.ids.geo_chunk_id) =>
        body_pc = "recombine_failed"

\* The stage a request has reached: the five links of the chain of run(),
\* then the chunk tasks of the chord (where a chord whose header failed
\* stays), then its body recombine_geographic_chunks, then
\* create_output_products.
Stage ==
    CASE chain_pc = "new" -> 0
      [] chain_pc = "parse" -> 1
      [] chain_pc = "validate" -> 2
      [] chain_pc = "chunk" -> 3
      [] chain_pc = "start" -> 4
      [] chain_pc = "end" /\ body_pc \in {"idle", "waiting", "aborted"} -> 5
      [] chain_pc = "end" /\ body_pc \in {"recombine_failed", "render"} -> 6
      [] chain_pc = "end" /\ body_pc \in {"render_failed", "done"} -> 7

\* The stages of a request run in the order parse, validate, chunk, start
\* processing, chunk tasks, recombine, render, none of them twice: every step
\* stays in its stage or enters the next one; chunk tasks run only after
\* start processing and never once recombine has run; recombine runs at most
\* once, when every chunk task has returned; render runs at most once, on the
\* mosaic of recombine; and the status becomes OK, with complete set, only in
\* the step that has written the difference raster and the classified image.
StagesInOrder ==
    [][ /\ Stage' \in {Stage, Stage + 1}
        /\ task_state' # task_state /\ task_state # <<>> =>
               ~BodyStarted /\ ~BodyStarted'
        /\ recombine_in' # recombine_in =>
               /\ recombine_in = None
               /\ mosaic = None
               /\ Stage = 5 /\ Stage' = 6
               /\ \A c \in DOMAIN task_state : task_state[c] = "done"
        /\ mosaic' # mosaic => recombine_in' # recombine_in
        /\ Stage' = 7 /\ Stage = 6 => body_pc = "render" /\ mosaic # None
        /\ status' = "OK" /\ status # "OK" =>
               /\ Stage = 6 /\ Stage' = 7
               /\ complete'
               /\ {data_path, result_path} \subseteq outputs'
               /\ outputs = {}
      ]_vars

\* The requests followed to their end: any acquisitions and chunk sizes, a
\* registered index.
FairInit ==
    /\ Init
    /\ measurements_valid
    /\ ~reverse_time
    /\ spectral_index = "ndvi"

\* Celery runs every task it was given: a step that can be taken is taken.
FairSpec == FairInit /\ [][Next]_vars /\ WF_vars(Next)

\* A request that passes validation and names a registered index.
ValidIndexedRequest ==
    ValidRequest /\ spectral_index \in DOMAIN spectral_indices_function_map

\* create_output_products has run.
Rendering == body_pc \in {"render_failed", "done"}

\* C12: for every valid request the stages run in order, none of them twice,
\* recombine_geographic_chunks does run (once), create_output_products runs
\* once a mosaic exists, and the status becomes OK only after the difference
\* raster and the classified image have been written.
C12_EachStageOnce ==
    /\ StagesInOrder
    /\ ValidIndexedRequest ~> BodyStarted
    /\ body_pc = "render" ~> Rendering

\* What holds of C12 whatever the chunk tasks do: recombine runs unless a
\* chunk task raised.
RecombinesUnlessTaskFailed ==
    ValidIndexedRequest ~>
        (BodyStarted \/ \E c \in DOMAIN task_state : task_state[c] = "failed")

\* C19: a request whose spectral index name is not in the registry is
\* rejected by validate_parameters: once validation has run nothing is
\* handed on, no chunk task is scheduled and none fails.
C19_UnknownIndexRejected ==
    spectral_index \notin DOMAIN spectral_indices_function_map
        /\ chain_pc \in {"chunk", "start", "end"} =>
            /\ chain_arg = None
            /\ header = <<>>
            /\ \A c \in DOMAIN task_state : task_state[c] # "failed"

\* C20: a finished create_output_products has written the plot of clean-pixel
\* percentages and set plot_path exactly when the acquisition list holds more
\* than one date; with at most one date there is no plot and plot_path is as
\* it was before the request ran.
C20_PlotIffSeveralDates ==
    /\ body_pc = "done" =>
           /\ plot_file \in outputs <=> Len(acquisition_list) > 1
           /\ plot_path = Some(plot_file) <=> Len(acquisition_list) > 1
    /\ body_pc \in {"done", "render_failed"} /\ Len(acquisition_list) <= 1 =>
           /\ plot_path = None
           /\ plot_file \notin outputs

C20_Witness ==
    /\ body_pc = "done"
    /\ Len(acquisition_list) > 1
    /\ plot_file \in outputs
    /\ plot_path = Some(plot_file)

\* The other case of C20: a finished request of one acquisition date.
C20_SingleDate ==
    /\ body_pc = "done"
    /\ Len(acquisition_list) = 1
    /\ plot_path = None

----------------------------------------------------------------------------
\* One pixel through processing_task and create_output_products

\* Values of a spectral index composite, and task.satellite.no_data_value,
\* a value no observation has.
Values == (-MaxValue)..MaxValue
no_data_value == -(MaxValue + 1)
CompositeValues == Values \cup {no_data_value}

\* The pixel of the baseline and of the analysis composite, and the fields of
\* the task that the pixel's colour depends on.
PixelInputs ==
    [baseline : CompositeValues,
     analysis : CompositeValues,
     composite_threshold_min : CompositeValues,
     composite_threshold_max : Values,
     change_threshold_min : {None} \cup {Some(v) : v \in Values},
     change_threshold_max : {None} \cup {Some(v) : v \in Values}]

\* xr_or(composite < composite_threshold_min, composite_threshold_max < composite)
out_of_range(value, threshold_min, threshold_max) ==
    value < threshold_min \/ threshold_max < value

no_data_in_both(baseline, analysis) ==
    baseline = no_data_value /\ analysis = no_data_value

\* xr_or(baseline == no_data_value, analysis == no_data_value)
no_data_in_either(baseline, analysis) ==
    baseline = no_data_value \/ analysis = no_data_value

\* Lines 304-319 for one pixel: the difference and the two masks of the chunk.
chunk_pixel(p) ==
    [diff |-> p.analysis - p.baseline,
     out_of_range |->
         out_of_range(p.baseline, p.composite_threshold_min, p.composite_threshold_max)
             \/ out_of_range(p.analysis, p.composite_threshold_min, p.composite_threshold_max),
     no_data |-> no_data_in_either(p.baseline, p.analysis)]

interp_unclamped(d, diff_min_possible, diff_max_possible) ==
    <<d - diff_min_possible, diff_max_possible - diff_min_possible>>

\* np.interp(diff_data, (diff_min_possible, diff_max_possible), (0, 1)): the
\* fraction <<numerator, denominator>> of the way from the least to the
\* greatest possible difference, clamped at both ends.
interp(d, diff_min_possible, diff_max_possible) ==
    <<IF d <= diff_min_possible THEN 0
      ELSE IF d >= diff_max_possible THEN diff_max_possible - diff_min_possible
      ELSE d - diff_min_possible,
      diff_max_possible - diff_min_possible>>

\* A pixel of the image: a named colour (for the colour map, the place on the
\* map) and its alpha channel.
cmap(fraction) == [colour |-> "RdYlGn", at |-> fraction, alpha |-> 1]
to_rgba(name) == [colour |-> name, at |-> <<0, 1>>, alpha |-> 1]
change_out_of_range_color == to_rgba("black")
composite_out_of_range_color == to_rgba("white")
\* np.array([0., 0., 0., 0.])
composite_no_data_color == [colour |-> "black", at |-> <<0, 1>>, alpha |-> 0]

\* line 469: (diff_data < cng_min) ^ (cng_max < diff_data)
diff_composite_out_of_range(d, cng_min, cng_max) ==
    (d < cng_min) # (cng_max < d)

colored_by_change_one_sided(image, d, cng_min, cng_max) ==
    IF \/ cng_min # None /\ d < the(cng_min)
       \/ cng_max # None /\ the(cng_max) < d
    THEN change_out_of_range_color
    ELSE image

\* 2.3.2 (lines 466-474)
colored_by_change(image, d, cng_min, cng_max) ==
    IF cng_min # None /\ cng_max # None
    THEN IF diff_composite_out_of_range(d, the(cng_min), the(cng_max))
         THEN change_out_of_range_color
         ELSE image
    ELSE image

\* 2.3.3 (line 486)
colored_by_composite(image, orig_composite_out_of_range) ==
    IF orig_composite_out_of_range THEN composite_out_of_range_color ELSE image

\* 2.3.4 (lines 489-490)
colored_by_no_data(image, composite_no_data) ==
    IF composite_no_data THEN composite_no_data_color ELSE image

image_pixel_no_data_first(index, m, cng_min, cng_max) ==
    LET spec_ind == spectral_indices_range_map[index]
    IN  colored_by_composite(
            colored_by_change(
                colored_by_no_data(
                    cmap(interp(m.diff, spec_ind[1] - spec_ind[2],
                                spec_ind[2] - spec_ind[1])),
                    m.no_data),
                m.diff, cng_min, cng_max),
            m.out_of_range)

\* Lines 423-441 for one pixel m of the mosaic: image_data before the colours.
normalized_pixel(index, m) ==
    LET spec_ind == spectral_indices_range_map[index]
        diff_min_possible == spec_ind[1] - spec_ind[2]
        diff_max_possible == spec_ind[2] - spec_ind[1]
    IN  interp(m.diff, diff_min_possible, diff_max_possible)

\* Lines 423-490 for one pixel m of the mosaic.
image_pixel(index, m, cng_min, cng_max) ==
    LET spec_ind == spectral_indices_range_map[index]
        diff_min_possible == spec_ind[1] - spec_ind[2]
        diff_max_possible == spec_ind[2] - spec_ind[1]
    IN  colored_by_no_data(
            colored_by_composite(
                colored_by_change(
                    cmap(interp(m.diff, diff_min_possible, diff_max_possible)),
                    m.diff, cng_min, cng_max),
                m.out_of_range),
            m.no_data)

\* write_geotiff_from_xr(task.data_path, diff_composite.astype('float32'),
\* no_data=task.satellite.no_data_value): the raster holds the difference as
\* it is, with no_data_value declared as its no-data value.
geotiff_pixel(m) == m.diff

\* The request of the followed pixel: nothing but the pixel moves.
PixelInit ==
    /\ acq = {}
    /\ measurements_valid = TRUE
    /\ geo_size = None
    /\ time_size = None
    /\ reverse_time = FALSE
    /\ spectral_index \in DOMAIN spectral_indices_function_map
    /\ temp_exists = TRUE
    /\ NewTask
    /\ px \in {Some(p) : p \in PixelInputs}
    /\ px_pc = "chunk"
    /\ px_chunk = None
    /\ px_out = None
    /\ NoSettings

\* processing_task on the pixel
processing_task_pixel ==
    /\ px_pc = "chunk"
    /\ px_chunk' = Some(chunk_pixel(the(px)))
    /\ px_pc' = "mosaic"
    /\ UNCHANGED <<request, px, px_out, settingsv, model, fs, chainv, chord,
                   dc_open>>

\* create_output_products on the pixel of the mosaic
create_output_products_pixel ==
    /\ px_pc = "mosaic"
    /\ px_out' = Some([tif |-> geotiff_pixel(the(px_chunk)),
                       normalized |-> normalized_pixel(spectral_index, the(px_chunk)),
                       image |-> image_pixel(spectral_index, the(px_chunk),
                                             the(px).change_threshold_min,
                                             the(px).change_threshold_max)])
    /\ px_pc' = "image"
    /\ UNCHANGED <<request, px, px_chunk, settingsv, model, fs, chainv, chord,
                   dc_open>>

PixelNext ==
    \/ processing_task_pixel
    \/ create_output_products_pixel

PixelSpec == PixelInit /\ [][PixelNext]_vars

----------------------------------------------------------------------------
\* Properties of the pixel

\* The followed pixel has been rendered.
Rendered == px_pc = "image"

\* Both ends of the change range are set.
ChangeRangeSet ==
    the(px).change_threshold_min # None /\ the(px).change_threshold_max # None

\* The difference of the pixel lies outside the change range, by the
\* predicate (difference < min) or (max < difference).
OutsideChangeRange ==
    \/ the(px_chunk).diff < the(the(px).change_threshold_min)
    \/ the(the(px).change_threshold_max) < the(px_chunk).diff

\* The colour the colour map gives the pixel's difference.
BaseColour ==
    LET spec_ind == spectral_indices_range_map[spectral_index]
    IN  cmap(interp(the(px_chunk).diff, spec_ind[1] - spec_ind[2],
                    spec_ind[2] - spec_ind[1]))

\* C13: a pixel whose combined no-data mask is true is fully transparent in
\* the image (RGBA 0,0,0,0), whatever its difference, its composite
\* out-of-range flag and the change range.
C13_NoDataIsTransparent ==
    Rendered /\ the(px_chunk).no_data =>
        /\ the(px_out).image = composite_no_data_color
        /\ the(px_out).image.alpha = 0
        /\ the(px_out).image.colour = "black"

C13_Witness ==
    /\ Rendered
    /\ the(px).baseline = no_data_value
    /\ the(px).analysis # no_data_value
    /\ the(px_chunk).no_data
    /\ the(px_chunk).out_of_range
    /\ ChangeRangeSet /\ OutsideChangeRange
    /\ the(px_out).image.alpha = 0

\* The scenario of C13 with no change range: a no-data pixel that no other
\* rule touches.
C13_NoChangeRange ==
    /\ Rendered
    /\ the(px).baseline = no_data_value
    /\ ~the(px_chunk).out_of_range
    /\ the(px).change_threshold_min = None
    /\ the(px).change_threshold_max = None
    /\ the(px_out).image.alpha = 0

\* C14: a pixel flagged composite-out-of-range and not no-data is opaque
\* white, also when its difference is outside the change range; a pixel
\* flagged by neither mask is opaque black when the change range is set and
\* its difference is outside it, and has the colour of the colour map
\* otherwise.
C14_WhiteOverBlack ==
    Rendered /\ ~the(px_chunk).no_data =>
        the(px_out).image =
            IF the(px_chunk).out_of_range THEN composite_out_of_range_color
            ELSE IF ChangeRangeSet /\ OutsideChangeRange
                 THEN change_out_of_range_color
                 ELSE BaseColour

\* C15: with both ends of the change range set, rule (b) marks the pixel
\* exactly when (difference < min) or (max < difference), also for min > max:
\* a pixel no mask covers is black exactly then.
C15_ChangeRuleIsOr ==
    Rendered /\ ChangeRangeSet =>
        /\ diff_composite_out_of_range(the(px_chunk).diff,
                                       the(the(px).change_threshold_min),
                                       the(the(px).change_threshold_max))
               <=> OutsideChangeRange
        /\ ~the(px_chunk).no_data /\ ~the(px_chunk).out_of_range =>
               (the(px_out).image = change_out_of_range_color
                    <=> OutsideChangeRange)

\* C16: unless both change_threshold_min and change_threshold_max are set, no
\* pixel has the change-out-of-range colour: a range with one end set is
\* treated as unset.
C16_UnsetRangePaintsNothing ==
    Rendered /\ ~ChangeRangeSet =>
        /\ the(px_out).image # change_out_of_range_color
        /\ ~the(px_chunk).no_data /\ ~the(px_chunk).out_of_range =>
               the(px_out).image = BaseColour

C16_Witness ==
    /\ Rendered
    /\ the(px).change_threshold_min # None
    /\ the(px).change_threshold_max = None
    /\ the(px_chunk).diff < the(the(px).change_threshold_min)
    /\ ~the(px_chunk).no_data
    /\ ~the(px_chunk).out_of_range
    /\ the(px_out).image.colour = "RdYlGn"

\* C17: in the difference raster a pixel whose combined no-data mask is true
\* holds the no-data value.
C17_MaskedPixelsHoldNoData ==
    Rendered /\ the(px_chunk).no_data => the(px_out).tif = no_data_value

\* C18: for a pixel of a chunk, difference = analysis - baseline; combined
\* out-of-range = baseline out of the composite range or analysis out of it,
\* a value being out of range when value < min or max < value; combined
\* no-data = (baseline = no_data) or (analysis = no_data), so true when both
\* composites are no-data.
C18_ChunkPixel ==
    px_pc \in {"mosaic", "image"} =>
        LET p == the(px)
            m == the(px_chunk)
        IN  /\ m.diff = p.analysis - p.baseline
            /\ m.out_of_range <=>
                   \/ p.baseline < p.composite_threshold_min
                   \/ p.composite_threshold_max < p.baseline
                   \/ p.analysis < p.composite_threshold_min
                   \/ p.composite_threshold_max < p.analysis
            /\ m.no_data <=>
                   (p.baseline = no_data_value \/ p.analysis = no_data_value)
            /\ p.baseline = no_data_value /\ p.analysis = no_data_value =>
                   m.no_data

C18_Witness ==
    /\ px_pc = "mosaic"
    /\ the(px).baseline = no_data_value
    /\ the(px).analysis = no_data_value
    /\ the(px_chunk).no_data
    /\ the(px_chunk).diff = 0

\* The other cases of C18: one composite without data, one out of range.
C18_OneSided ==
    /\ px_pc = "mosaic"
    /\ the(px).baseline # no_data_value
    /\ the(px).analysis = no_data_value
    /\ the(px_chunk).no_data
    /\ ~out_of_range(the(px).baseline, the(px).composite_threshold_min,
                     the(px).composite_threshold_max)
    /\ the(px_chunk).out_of_range

\* C21: for a registered index of range (lo, hi) the difference d is rescaled
\* linearly from [lo - hi, hi - lo] to [0, 1]: the normalized value n (a
\* fraction n[1] / n[2]) is 0 at lo - hi and below, 1 at hi - lo and above,
\* (d - (lo - hi)) / (2 * (hi - lo)) in between, so 1/2 at d = 0.
C21_LinearRescale ==
    Rendered =>
        LET lo == spectral_indices_range_map[spectral_index][1]
            hi == spectral_indices_range_map[spectral_index][2]
            d == the(px_chunk).diff
            n == the(px_out).normalized
        IN  /\ n[2] = 2 * (hi - lo)
            /\ n[2] > 0
            /\ d <= lo - hi => n[1] = 0
            /\ d >= hi - lo => n[1] = n[2]
            /\ lo - hi <= d /\ d <= hi - lo => n[1] = d - (lo - hi)
            /\ d = 0 => 2 * n[1] = n[2]
            /\ ~the(px_chunk).no_data /\ ~the(px_chunk).out_of_range
                   /\ the(px).change_threshold_min = None =>
                   the(px_out).image = cmap(n)

C21_Witness ==
    /\ Rendered
    /\ spectral_index = "ndvi"
    /\ the(px_chunk).diff = 0
    /\ the(px_out).normalized = <<2, 4>>
    /\ the(px_out).image = cmap(<<2, 4>>)

\* The clamped cases of C21: a difference below the least and above the
\* greatest possible one.
C21_ClampedBelow ==
    /\ Rendered
    /\ the(px_chunk).diff < spectral_indices_range_map[spectral_index][1]
                                - spectral_indices_range_map[spectral_index][2]
    /\ the(px_out).normalized[1] = 0

C21_ClampedAbove ==
    /\ Rendered
    /\ the(px_chunk).diff > spectral_indices_range_map[spectral_index][2]
                                - spectral_indices_range_map[spectral_index][1]
    /\ the(px_out).normalized[1] = the(px_out).normalized[2]

----------------------------------------------------------------------------
\* The number of acquisition dates over all the chunks of a list of time
\* chunks.
RECURSIVE dates_in(_)
dates_in(time_chunks) ==
    IF time_chunks = <<>> THEN 0
    ELSE Len(Head(time_chunks)) + dates_in(Tail(time_chunks))

\* C22: once start_chunk_processing has run on a plan, total_scenes is the
\* number of geographic chunks times the number of acquisition dates over all
\* time chunks, and scenes_processed is 0, whatever the time chunk size.
C22_TotalScenes ==
    chain_pc = "end" /\ chain_arg # None =>
        /\ total_scenes = Len(the(chain_arg).geographic_chunks)
                              * dates_in(the(chain_arg).time_chunks)
        /\ scenes_processed = 0

----------------------------------------------------------------------------
\* The chunk tasks that hold a DataAccessApi connection: those between the
\* load and the close of line 309, and those an exception took out of
\* processing_task.
HoldingConnection ==
    {c \in DOMAIN task_state : task_state[c] \in {"running", "failed"}}

\* C23: validate_parameters, perform_task_chunking and processing_task close
\* their DataAccessApi connection before they return, on every return path:
\* the only connections open are those of chunk tasks that have not returned.
C23_ConnectionsClosed ==
    dc_open = Cardinality(HoldingConnection)

----------------------------------------------------------------------------
\* The settings module (data_cube_ui/settings-sansa-desa.py)

\* A Python value: its type and its repr.
py(type, repr) == [type |-> type, repr |-> repr]

\* bool(value)
truthy(value) ==
    CASE value.type = "bool" -> value.repr = "True"
      [] value.type = "int" -> value.repr # "0"
      [] value.type = "str" -> value.repr # "''"
      [] OTHER -> TRUE

\* The names get_env_variable is called with, the defaults it is passed (None:
\* no default) and the environment variables the model follows.
Variables == {"DEBUG", "SECRET_KEY"}
Defaults ==
    {None} \cup {Some(v) : v \in
        {py("bool", "False"), py("bool", "True"), py("int", "0"),
         py("int", "5432"), py("str", "''"), py("str", "'localhost'")}}
EnvNames == {"DEBUG", "DJANGO__DEBUG", "DJANGO__SECRET_KEY"}
EnvValues == {None, Some(py("str", "''")), Some(py("str", "'true'"))}

\* os.getenv(name)
getenv(name) ==
    IF name \in DOMAIN environ THEN environ[name] ELSE None

\* f'{prefix}{variable}'
env_var_name(variable, use_prefix) ==
    (IF use_prefix THEN "DJANGO__" ELSE "") \o variable

returned(value) == [raised |-> "", value |-> Some(value)]
ImproperlyConfigured == [raised |-> "ImproperlyConfigured", value |-> None]

\* 'if default:' of line 26
uses_default(default) == default # None /\ truthy(the(default))

\* get_env_variable(variable, default, use_prefix), lines 17-31
env_variable(variable, default, use_prefix) ==
    LET value == getenv(env_var_name(variable, use_prefix))
    IN  IF value = None
        THEN IF uses_default(default)
             THEN returned(the(default))
             ELSE ImproperlyConfigured
        ELSE returned(the(value))

\* The process starts with some environment; the settings module has called
\* nothing yet.
SettingsInit ==
    /\ acq = {}
    /\ measurements_valid = TRUE
    /\ geo_size = None
    /\ time_size = None
    /\ reverse_time = FALSE
    /\ spectral_index = "ndvi"
    /\ temp_exists = TRUE
    /\ NewTask
    /\ NoPixel
    /\ environ \in [EnvNames -> EnvValues]
    /\ env_call = None
    /\ env_out = None

get_env_variable(variable, default, use_prefix) ==
    /\ env_call' = Some([variable |-> variable, default |-> default,
                         use_prefix |-> use_prefix])
    /\ env_out' = Some(env_variable(variable, default, use_prefix))
    /\ UNCHANGED <<request, pixelv, environ, model, fs, chainv, chord, dc_open>>

SettingsNext ==
    \E variable \in Variables, default \in Defaults, use_prefix \in BOOLEAN :
        get_env_variable(variable, default, use_prefix)

SettingsSpec == SettingsInit /\ [][SettingsNext]_vars

\* C24: get_env_variable returns the value of the (optionally DJANGO__
\* prefixed) environment variable when it is set; when it is unset and a
\* default was passed it returns that default, falsy or not, and does not
\* raise; it raises ImproperlyConfigured only when the variable is unset and
\* no default was passed.
C24_DefaultIsReturned ==
    env_call # None =>
        LET call == the(env_call)
            name == IF call.use_prefix THEN "DJANGO__" \o call.variable
                    ELSE call.variable
            set == name \in DOMAIN environ /\ environ[name] # None
            out == the(env_out)
        IN  /\ set => out.raised = "" /\ out.value = environ[name]
            /\ ~set /\ call.default # None =>
                   out.raised = "" /\ out.value = call.default
            /\ out.raised = "ImproperlyConfigured" <=>
                   ~set /\ call.default = None

====
